---- MODULE Spec2Model ----
(***************************************************************************)
(* hipe::DynamicThreadPond (src/dynamic_pond.h) as a state machine.        *)
(*                                                                         *)
(* Threads: the workers (one per slot of pond), producer threads calling   *)
(* submit / submitInBatch, threads calling waitForTasks, one lifecycle     *)
(* thread calling addThreads / delThreads / adjustThreads / close / ~, and *)
(* a second thread calling addThreads(1).                                  *)
(* Every step is one lock-protected block or one lock-free access of the   *)
(* source.  A slot index k of the source is the number k here; pond[k+1]   *)
(* is its handle.                                                          *)
(***************************************************************************)
EXTENDS Integers, Sequences, FiniteSets, TLC

\* ------------------------------------------------------------- bounds
MaxSlots == 2      \* cap on pond.size()
MaxTasks == 2      \* cap on the number of tasks ever submitted
MaxCloses == 2     \* cap on the number of explicit close() calls
MaxShutTasks == 1  \* cap on the tasks submitted around the close() of SpecShut
MaxResets == 1     \* cap on the number of resetTaskLoaded() calls

Producers == {1}
Waiters == {1}
AllProducers == {1, 2}
AllWaiters == {1, 2}
Slots == 0..(MaxSlots - 1)
TaskIds == 1..MaxTasks

VARIABLES
    stop,            \* bool stop                              (line 15)
    thread_numb,     \* int thread_numb                        (line 18)
    waiting,         \* bool waiting                           (line 21)
    total_tasks,     \* std::atomic_int total_tasks            (line 24)
    shared_tq,       \* std::queue<HipeTask> shared_tq         (line 27)
    shared_locker,   \* std::mutex shared_locker: its holder   (line 30)
    pond,            \* std::vector<std::thread> pond          (line 39)
    shrink_numb,     \* std::atomic_int shrink_numb            (line 42)
    deleted_threads, \* std::queue<int> deleted_threads        (line 45)
    task_loaded,     \* std::atomic_int task_loaded            (line 48)
    wpc,             \* per slot: where its thread is in worker()
    task,            \* per slot: worker()'s local HipeTask (0: empty)
    ppc,             \* per producer: where it is in submit/submitInBatch
    pbatch,          \* per producer: size argument of submitInBatch
    pidx,            \* per producer: loop variable i of submitInBatch
    dpc,             \* per waiter: where it is in waitForTasks
    cpc,             \* lifecycle thread: where it is
    cn,              \* lifecycle thread: tnumb left (addThreads/delThreads), iterator (close)
    cidx,            \* lifecycle thread: local idx of addThreads
    target,          \* lifecycle thread: target_tnumb of its adjustThreads call (-1: none)
    windex,          \* per slot: the index argument its thread was started with
    gpc,             \* second addThreads caller: where it is
    gidx,            \* second addThreads caller: local idx / index
    gn,              \* second addThreads caller: thread_numb as read by thread_numb++
    waitingRacy,     \* values of waiting an unsynchronised read may still see
    stopSeen,        \* slots whose thread locked shared_locker after stop was set
    nextTask,        \* history: id given to the next task enqueued
    dequeued,        \* history: per task, how many times a worker took it
    executed,        \* history: per task, how many times it was invoked
    resets,          \* history: resetTaskLoaded() calls made
    calls,           \* lifecycle thread: resize calls it will still make (-1: any number)
    closes,          \* history: close() calls that returned
    closeCalls,      \* history: close() calls made
    peak,            \* history: largest thread_numb so far
    fault            \* history: faults raised (std::system_error, undefined behaviour)

vars == <<stop, thread_numb, waiting, total_tasks, shared_tq, shared_locker, pond,
          shrink_numb, deleted_threads, task_loaded, wpc, task, ppc, pbatch, dpc,
          cpc, cn, cidx, waitingRacy, stopSeen, nextTask, dequeued, executed, calls,
          closes, closeCalls, peak, fault, target, resets, pidx, windex,
          gpc, gidx, gn>>

poolVars == <<stop, thread_numb, waiting, total_tasks, shared_tq, pond,
              shrink_numb, deleted_threads, task_loaded>>
workerVars == <<wpc, task>>
producerVars == <<ppc, pbatch, nextTask>>
ctlVars == <<cpc, cn, cidx, calls, closes, closeCalls, peak>>
growerVars == <<gpc, gidx, gn>>

\* ------------------------------------------------------------- helpers
Free == <<"free", 0>>
WorkerId(i) == <<"worker", i>>
ProducerId(p) == <<"producer", p>>
WaiterId(d) == <<"waiter", d>>

Max(a, b) == IF a > b THEN a ELSE b

\* The resize calls the lifecycle thread will still make, after one more.
CallsLeft(c) == IF c > 0 THEN c - 1 ELSE c

\* A notify_all that wakes nobody.
NotifyNobody(pc) == pc

\* std::condition_variable::notify_all on awake_cv: every blocked worker has to
\* re-acquire the lock and re-evaluate its predicate.
NotifyAllAwake(pc) == [i \in Slots |-> IF pc[i] = "blocked" THEN "lock" ELSE pc[i]]

\* A notify_one that wakes nobody.
NotifyOneLost(pc) == {pc}

\* The results notify_one on awake_cv may have: one blocked worker is released,
\* or nothing happens when none is blocked.
NotifyOneAwake(pc) ==
    IF \E i \in Slots : pc[i] = "blocked"
    THEN {[pc EXCEPT ![i] = "lock"] : i \in {j \in Slots : pc[j] = "blocked"}}
    ELSE {pc}

\* The same for task_done_cv.
NotifyOneDone(pc) ==
    IF \E d \in AllWaiters : pc[d] = "w_blocked"
    THEN {[pc EXCEPT ![d] = "w_lock"] : d \in {e \in AllWaiters : pc[e] = "w_blocked"}}
    ELSE {pc}

\* A wait without a predicate: any wake-up lets the worker through.
AwakePredNone == TRUE

\* The lambda of awake_cv.wait (line 239).
AwakePred == shared_tq # <<>> \/ stop \/ shrink_numb > 0

\* A wait for an empty queue instead of a zero counter.
DonePredQueueEmpty == shared_tq = <<>>

\* The lambda of task_done_cv.wait (line 174).
DonePred == total_tasks = 0

\* stop is a plain bool written under the lock (line 78) and read without it
\* (line 236): a thread that has not locked shared_locker since the write may
\* still read the old value.
StopReadValues(i) == IF stop /\ i \notin stopSeen THEN {TRUE, FALSE} ELSE {stop}

\* waiting is a plain bool written without the lock (line 172) and read without
\* it (line 257): until the writer releases the lock, the read may see the value
\* from before the write.
WaitingReadValues == {waiting} \cup waitingRacy

\* What locking shared_locker teaches slot i's thread about stop.
SeenAfterLock(i) == IF stop THEN stopSeen \cup {i} ELSE stopSeen

\* ------------------------------------------------------------- construction
\* DynamicThreadPond(tnumb): tnumb workers, slot i running worker(i).  c is the
\* number of resize calls the lifecycle thread is going to make.
Construct(c) ==
    \E tnumb \in 0..MaxSlots :
        /\ stop = FALSE
        /\ thread_numb = tnumb
        /\ waiting = FALSE
        /\ total_tasks = 0
        /\ shared_tq = <<>>
        /\ shared_locker = Free
        /\ pond = [k \in 1..tnumb |-> "joinable"]
        /\ shrink_numb = 0
        /\ deleted_threads = <<>>
        /\ task_loaded = 0
        /\ wpc = [i \in Slots |-> IF i < tnumb THEN "while" ELSE "none"]
        /\ task = [i \in Slots |-> 0]
        /\ ppc = [p \in AllProducers |-> "idle"]
        /\ pbatch = [p \in AllProducers |-> 0]
        /\ pidx = [p \in AllProducers |-> 0]
        /\ dpc = [d \in AllWaiters |-> "idle"]
        /\ cpc = "idle"
        /\ cn = 0
        /\ cidx = 0
        /\ waitingRacy = {}
        /\ stopSeen = {}
        /\ nextTask = 1
        /\ dequeued = [t \in TaskIds |-> 0]
        /\ executed = [t \in TaskIds |-> 0]
        /\ calls = c
        /\ closes = 0
        /\ closeCalls = 0
        /\ peak = tnumb
        /\ fault = {}
        /\ target = -1
        /\ resets = 0
        /\ windex = [i \in Slots |-> i]
        /\ gpc = "idle"
        /\ gidx = 0
        /\ gn = 0

Init == Construct(-1)

\* ------------------------------------------------------------- worker(index)
\* line 236: while (!stop)
WorkerWhile(i) ==
    /\ wpc[i] = "while"
    /\ \E s \in StopReadValues(i) :
           wpc' = [wpc EXCEPT ![i] = IF s THEN "return" ELSE "lock"]
    /\ UNCHANGED <<poolVars, shared_locker, task, ppc, pbatch, dpc, cpc, cn, cidx,
                   waitingRacy, stopSeen, nextTask, dequeued, executed, calls, closes,
                   closeCalls, peak, fault,
                   target, resets, pidx, windex, growerVars>>

\* lines 238-239: take the lock and evaluate the predicate of awake_cv.wait;
\* also the re-acquisition and re-evaluation after a wake-up.
WorkerLock(i) ==
    /\ wpc[i] = "lock"
    /\ shared_locker = Free
    /\ shared_locker' = WorkerId(i)
    /\ stopSeen' = SeenAfterLock(i)
    /\ wpc' = [wpc EXCEPT ![i] = IF AwakePred THEN "if_shrink" ELSE "prewait"]
    /\ UNCHANGED <<poolVars, task, ppc, pbatch, dpc, cpc, cn, cidx, waitingRacy,
                   nextTask, dequeued, executed, calls, closes, closeCalls, peak, fault,
                   target, resets, pidx, windex, growerVars>>

\* line 239: the predicate was false; wait() releases the lock and blocks in
\* one atomic step.
WorkerBlock(i) ==
    /\ wpc[i] = "prewait"
    /\ shared_locker' = Free
    /\ wpc' = [wpc EXCEPT ![i] = "blocked"]
    /\ UNCHANGED <<poolVars, task, ppc, pbatch, dpc, cpc, cn, cidx, waitingRacy,
                   stopSeen, nextTask, dequeued, executed, calls, closes, closeCalls,
                   peak, fault,
                   target, resets, pidx, windex, growerVars>>

\* A worker that serves the queue before it looks at the shrink request.
TakesShrinkExitIdle == shrink_numb # 0 /\ shared_tq = <<>>

\* line 241: if (shrink_numb), tested before the queue is looked at.
TakesShrinkExit == shrink_numb # 0

\* A shrink request that also stops a worker in the middle of a task.
ShrinkPointsAnywhere == {"if_shrink", "invoke"}

\* Where worker() reads shrink_numb to decide about its exit: line 241 only,
\* right after the wait.
ShrinkPoints == {"if_shrink"}

\* lines 241-245: shrink exit; the break leaves the scope of locker.
WorkerShrinkExit(i) ==
    /\ wpc[i] \in ShrinkPoints
    /\ TakesShrinkExit
    /\ shrink_numb' = shrink_numb - 1
    /\ deleted_threads' = Append(deleted_threads, windex[i])
    /\ shared_locker' = Free
    /\ wpc' = [wpc EXCEPT ![i] = "return"]
    /\ UNCHANGED <<stop, thread_numb, waiting, total_tasks, shared_tq, pond,
                   task_loaded, task, ppc, pbatch, dpc, cpc, cn, cidx, waitingRacy,
                   stopSeen, nextTask, dequeued, executed, calls, closes, closeCalls,
                   peak, fault,
                   target, resets, pidx, windex, growerVars>>

\* front() without pop().
PopFrontKept(q) == q

\* What lines 247-248 leave in the queue: pop() removes the front.
PopFront(q) == Tail(q)

\* A worker that does not test stop before it dequeues.
MayDequeueAlways == TRUE

\* line 246: if (!stop)
MayDequeue == ~stop

\* lines 246-249: take the front task and unlock.  front() of an empty queue is
\* undefined behaviour: it is recorded as a fault and the task is garbage (0).
WorkerDequeue(i) ==
    /\ wpc[i] = "if_shrink"
    /\ ~TakesShrinkExit
    /\ MayDequeue
    /\ IF shared_tq = <<>>
       THEN /\ task' = [task EXCEPT ![i] = 0]
            /\ fault' = fault \cup {"front_of_empty_queue"}
            /\ UNCHANGED <<shared_tq, dequeued>>
       ELSE /\ task' = [task EXCEPT ![i] = Head(shared_tq)]
            /\ shared_tq' = PopFront(shared_tq)
            /\ dequeued' = [dequeued EXCEPT ![Head(shared_tq)] = @ + 1]
            /\ UNCHANGED fault
    /\ shared_locker' = Free
    /\ wpc' = [wpc EXCEPT ![i] = "load"]
    /\ UNCHANGED <<stop, thread_numb, waiting, total_tasks, pond, shrink_numb,
                   deleted_threads, task_loaded, ppc, pbatch, dpc, cpc, cn, cidx,
                   waitingRacy, stopSeen, nextTask, executed, calls, closes,
                   closeCalls, peak,
                   target, resets, pidx, windex, growerVars>>

\* line 246 with stop set: nothing is dequeued; the scope of locker ends.
WorkerSkip(i) ==
    /\ wpc[i] = "if_shrink"
    /\ ~TakesShrinkExit
    /\ ~MayDequeue
    /\ shared_locker' = Free
    /\ wpc' = [wpc EXCEPT ![i] = "while"]
    /\ UNCHANGED <<poolVars, task, ppc, pbatch, dpc, cpc, cn, cidx, waitingRacy,
                   stopSeen, nextTask, dequeued, executed, calls, closes, closeCalls,
                   peak, fault,
                   target, resets, pidx, windex, growerVars>>

\* A worker that does not count the task it took.
LoadedCountNot(n) == n

\* The counter after line 251: task_loaded++.
LoadedCount(n) == n + 1

\* line 251: task_loaded++
WorkerLoad(i) ==
    /\ wpc[i] = "load"
    /\ task_loaded' = LoadedCount(task_loaded)
    /\ wpc' = [wpc EXCEPT ![i] = "invoke"]
    /\ UNCHANGED <<stop, thread_numb, waiting, total_tasks, shared_tq, shared_locker,
                   pond, shrink_numb, deleted_threads, task, ppc, pbatch, dpc, cpc,
                   cn, cidx, waitingRacy, stopSeen, nextTask, dequeued, executed,
                   calls, closes, closeCalls, peak, fault,
                   target, resets, pidx, windex, growerVars>>

\* line 254: util::invoke(task); the task runs to its end.
WorkerInvoke(i) ==
    /\ wpc[i] = "invoke"
    /\ executed' = IF task[i] \in TaskIds
                   THEN [executed EXCEPT ![task[i]] = @ + 1]
                   ELSE executed
    /\ wpc' = [wpc EXCEPT ![i] = "dec"]
    /\ UNCHANGED <<poolVars, shared_locker, task, ppc, pbatch, dpc, cpc, cn, cidx,
                   waitingRacy, stopSeen, nextTask, dequeued, calls, closes,
                   closeCalls, peak, fault,
                   target, resets, pidx, windex, growerVars>>

\* line 255: --total_tasks.  The local task is not read again before line 247
\* overwrites it: it is cleared here, so task[i] # 0 says that slot i holds a
\* dequeued task whose decrement has not happened.
WorkerDec(i) ==
    /\ wpc[i] = "dec"
    /\ total_tasks' = total_tasks - 1
    /\ task' = [task EXCEPT ![i] = 0]
    /\ wpc' = [wpc EXCEPT ![i] = "if_waiting"]
    /\ UNCHANGED <<stop, thread_numb, waiting, shared_tq, shared_locker, pond,
                   shrink_numb, deleted_threads, task_loaded, ppc, pbatch, dpc,
                   cpc, cn, cidx, waitingRacy, stopSeen, nextTask, dequeued,
                   executed, calls, closes, closeCalls, peak, fault,
                   target, resets, pidx, windex, growerVars>>

\* line 257: if (waiting)
WorkerIfWaiting(i) ==
    /\ wpc[i] = "if_waiting"
    /\ \E w \in WaitingReadValues :
           wpc' = [wpc EXCEPT ![i] = IF w THEN "notify" ELSE "while"]
    /\ UNCHANGED <<poolVars, shared_locker, task, ppc, pbatch, dpc, cpc, cn, cidx,
                   waitingRacy, stopSeen, nextTask, dequeued, executed, calls, closes,
                   closeCalls, peak, fault,
                   target, resets, pidx, windex, growerVars>>

\* lines 258-259: lock, task_done_cv.notify_one(), unlock.
WorkerNotify(i) ==
    /\ wpc[i] = "notify"
    /\ shared_locker = Free
    /\ dpc' \in NotifyOneDone(dpc)
    /\ stopSeen' = SeenAfterLock(i)
    /\ wpc' = [wpc EXCEPT ![i] = "while"]
    /\ UNCHANGED <<poolVars, shared_locker, task, ppc, pbatch, cpc, cn, cidx,
                   waitingRacy, nextTask, dequeued, executed, calls, closes,
                   closeCalls, peak, fault,
                   target, resets, pidx, windex, growerVars>>

\* line 263: worker() returns and the thread ends.
WorkerReturn(i) ==
    /\ wpc[i] = "return"
    /\ wpc' = [wpc EXCEPT ![i] = "exited"]
    /\ UNCHANGED <<poolVars, shared_locker, task, ppc, pbatch, dpc, cpc, cn, cidx,
                   waitingRacy, stopSeen, nextTask, dequeued, executed, calls, closes,
                   closeCalls, peak, fault,
                   target, resets, pidx, windex, growerVars>>

\* std::condition_variable::wait may wake without a notification.
WorkerSpuriousWake(i) ==
    /\ wpc[i] = "blocked"
    /\ wpc' = [wpc EXCEPT ![i] = "lock"]
    /\ UNCHANGED <<poolVars, shared_locker, task, ppc, pbatch, dpc, cpc, cn, cidx,
                   waitingRacy, stopSeen, nextTask, dequeued, executed, calls, closes,
                   closeCalls, peak, fault,
                   target, resets, pidx, windex, growerVars>>

\* ------------------------------------------------------------- submit
\* lines 185-186 (and 204-205 of submitForReturn): lock, shared_tq.emplace(foo).
Submit(p) ==
    /\ ppc[p] = "idle"
    /\ nextTask <= MaxTasks
    /\ shared_locker = Free
    /\ shared_locker' = ProducerId(p)
    /\ shared_tq' = Append(shared_tq, nextTask)
    /\ nextTask' = nextTask + 1
    /\ ppc' = [ppc EXCEPT ![p] = "s_inc"]
    /\ UNCHANGED <<stop, thread_numb, waiting, total_tasks, pond, shrink_numb,
                   deleted_threads, task_loaded, workerVars, pbatch, dpc, ctlVars,
                   waitingRacy, stopSeen, dequeued, executed, fault,
                   target, resets, pidx, windex, growerVars>>

\* A submit that forgets the counter.
CountSubmittedNot(n) == n

\* The counter after line 187 (206): ++total_tasks.
CountSubmitted(n) == n + 1

\* lines 187-188 (206-207): ++total_tasks, unlock.
SubmitInc(p) ==
    /\ ppc[p] = "s_inc"
    /\ total_tasks' = CountSubmitted(total_tasks)
    /\ shared_locker' = Free
    /\ ppc' = [ppc EXCEPT ![p] = "s_ntf"]
    /\ UNCHANGED <<stop, thread_numb, waiting, shared_tq, pond, shrink_numb,
                   deleted_threads, task_loaded, workerVars, pbatch, dpc, ctlVars,
                   waitingRacy, stopSeen, nextTask, dequeued, executed, fault,
                   target, resets, pidx, windex, growerVars>>

\* line 189 (208): awake_cv.notify_one()
SubmitNotify(p) ==
    /\ ppc[p] = "s_ntf"
    /\ wpc' \in NotifyOneAwake(wpc)
    /\ ppc' = [ppc EXCEPT ![p] = "idle"]
    /\ UNCHANGED <<poolVars, shared_locker, task, pbatch, dpc, ctlVars, waitingRacy,
                   stopSeen, nextTask, dequeued, executed, fault,
                   target, resets, pidx, windex, growerVars>>

\* lines 220-221: lock, total_tasks += size.
SubmitInBatch(p) ==
    /\ ppc[p] = "idle"
    /\ shared_locker = Free
    /\ \E size \in 0..MaxTasks :
           /\ nextTask + size - 1 <= MaxTasks
           /\ total_tasks' = total_tasks + size
           /\ pbatch' = [pbatch EXCEPT ![p] = size]
    /\ pidx' = [pidx EXCEPT ![p] = 0]
    /\ shared_locker' = ProducerId(p)
    /\ ppc' = [ppc EXCEPT ![p] = "b_push"]
    /\ UNCHANGED <<stop, thread_numb, waiting, shared_tq, pond, shrink_numb,
                   deleted_threads, task_loaded, workerVars, dpc, ctlVars,
                   waitingRacy, stopSeen, nextTask, dequeued, executed, fault,
                   target, resets, windex, growerVars>>

\* A guard that is released after every emplace.
LockDuringBatchDropped(p, last) == Free

\* The holder of shared_locker after an iteration of the loop of lines 222-224:
\* the guard of line 220 lives until the loop is over (line 225).
LockDuringBatch(p, last) == IF last THEN Free ELSE ProducerId(p)

\* lines 222-225: one iteration of the loop, shared_tq.emplace(cont[i]); after
\* the last one (or at once when size is 0) the scope of the guard ends.
BatchPush(p) ==
    /\ ppc[p] = "b_push"
    /\ IF pidx[p] < pbatch[p]
       THEN /\ shared_tq' = Append(shared_tq, nextTask)
            /\ nextTask' = nextTask + 1
       ELSE UNCHANGED <<shared_tq, nextTask>>
    /\ LET last == pidx[p] + 1 >= pbatch[p]
       IN  /\ shared_locker' = LockDuringBatch(p, last)
           /\ pidx' = [pidx EXCEPT ![p] = IF last THEN 0 ELSE @ + 1]
           /\ pbatch' = [pbatch EXCEPT ![p] = IF last THEN 0 ELSE @]
           /\ ppc' = [ppc EXCEPT ![p] = IF last THEN "b_ntf" ELSE "b_push"]
    /\ UNCHANGED <<stop, thread_numb, waiting, total_tasks, pond, shrink_numb,
                   deleted_threads, task_loaded, workerVars, dpc, ctlVars,
                   waitingRacy, stopSeen, dequeued, executed, fault,
                   target, resets, windex, growerVars>>

\* line 226: awake_cv.notify_all()
BatchNotify(p) ==
    /\ ppc[p] = "b_ntf"
    /\ wpc' = NotifyAllAwake(wpc)
    /\ ppc' = [ppc EXCEPT ![p] = "idle"]
    /\ UNCHANGED <<poolVars, shared_locker, task, pbatch, dpc, ctlVars, waitingRacy,
                   stopSeen, nextTask, dequeued, executed, fault,
                   target, resets, pidx, windex, growerVars>>

\* ------------------------------------------------------------- waitForTasks
\* line 172: waiting = true, written without the lock.
WaitForTasks(d) ==
    /\ dpc[d] = "idle"
    /\ waiting' = TRUE
    /\ waitingRacy' = waitingRacy \cup ({waiting} \ {TRUE})
    /\ dpc' = [dpc EXCEPT ![d] = "w_lock"]
    /\ UNCHANGED <<stop, thread_numb, total_tasks, shared_tq, shared_locker, pond,
                   shrink_numb, deleted_threads, task_loaded, workerVars,
                   producerVars, ctlVars, stopSeen, dequeued, executed, fault,
                   target, resets, pidx, windex, growerVars>>

\* lines 173-174: take the lock and evaluate the predicate of task_done_cv.wait;
\* also the re-acquisition and re-evaluation after a wake-up.
WaitLock(d) ==
    /\ dpc[d] = "w_lock"
    /\ shared_locker = Free
    /\ shared_locker' = WaiterId(d)
    /\ dpc' = [dpc EXCEPT ![d] = IF DonePred THEN "w_return" ELSE "w_prewait"]
    /\ UNCHANGED <<poolVars, workerVars, producerVars, ctlVars, waitingRacy,
                   stopSeen, dequeued, executed, fault,
                   target, resets, pidx, windex, growerVars>>

\* line 174: the predicate was false; wait() releases the lock and blocks in one
\* atomic step.  The release publishes the write of line 172.
WaitBlock(d) ==
    /\ dpc[d] = "w_prewait"
    /\ shared_locker' = Free
    /\ waitingRacy' = {}
    /\ dpc' = [dpc EXCEPT ![d] = "w_blocked"]
    /\ UNCHANGED <<poolVars, workerVars, producerVars, ctlVars, stopSeen, dequeued,
                   executed, fault,
                   target, resets, pidx, windex, growerVars>>

\* lines 175-176: waiting = false, unlock, return.
WaitReturn(d) ==
    /\ dpc[d] = "w_return"
    /\ waiting' = FALSE
    /\ waitingRacy' = {}
    /\ shared_locker' = Free
    /\ dpc' = [dpc EXCEPT ![d] = "idle"]
    /\ UNCHANGED <<stop, thread_numb, total_tasks, shared_tq, pond, shrink_numb,
                   deleted_threads, task_loaded, workerVars, producerVars, ctlVars,
                   stopSeen, dequeued, executed, fault,
                   target, resets, pidx, windex, growerVars>>

\* std::condition_variable::wait may wake without a notification.
WaitSpuriousWake(d) ==
    /\ dpc[d] = "w_blocked"
    /\ dpc' = [dpc EXCEPT ![d] = "w_lock"]
    /\ UNCHANGED <<poolVars, shared_locker, workerVars, producerVars, ctlVars,
                   waitingRacy, stopSeen, dequeued, executed, fault,
                   target, resets, pidx, windex, growerVars>>

\* ------------------------------------------------------------- observers
\* lines 161-163: resetTaskLoaded(), task_loaded.exchange(0), from any thread.
ResetTaskLoaded ==
    /\ resets < MaxResets
    /\ task_loaded' = 0
    /\ resets' = resets + 1
    /\ UNCHANGED <<stop, thread_numb, waiting, total_tasks, shared_tq, shared_locker,
                   pond, shrink_numb, deleted_threads, workerVars, producerVars, dpc,
                   ctlVars, waitingRacy, stopSeen, dequeued, executed, fault, target,
                   pidx, windex, growerVars>>

\* ------------------------------------------------------------- addThreads
\* The slots the addThreads calls in progress may still append to pond.
SlotsAsked ==
    (IF cpc \in {"add_lock", "add_join", "add_new"} THEN cn
     ELSE IF cpc = "add_inc" THEN cn - 1 ELSE 0)
    + (IF gpc \in {"g_lock", "g_join", "g_size", "g_new"} THEN 1 ELSE 0)

\* lines 92-95: addThreads(tnumb), tnumb >= 0 asserted.  Called before close();
\* the call is made only when the slots it may need fit under MaxSlots.
AddThreads ==
    /\ cpc = "idle"
    /\ closeCalls = 0
    /\ calls # 0
    /\ \E tnumb \in 0..MaxSlots :
           /\ Len(pond) + SlotsAsked + tnumb <= MaxSlots
           /\ cn' = tnumb
           /\ cpc' = IF tnumb = 0 THEN "idle" ELSE "add_lock"
    /\ calls' = CallsLeft(calls)
    /\ target' = -1
    /\ UNCHANGED <<poolVars, shared_locker, workerVars, producerVars, dpc, cidx,
                   closes, closeCalls, peak, waitingRacy, stopSeen, dequeued,
                   executed, fault,
                   resets, pidx, windex, growerVars>>

\* Line 97: whether this iteration recycles a slot.
Recycles(q) == q # <<>>

\* lines 96-100 and 106: under the lock, take a recycled index if there is one.
AddLock ==
    /\ cpc = "add_lock"
    /\ shared_locker = Free
    /\ IF Recycles(deleted_threads)
       THEN /\ cidx' = Head(deleted_threads)
            /\ deleted_threads' = Tail(deleted_threads)
            /\ cpc' = "add_join"
       ELSE /\ cpc' = "add_new"
            /\ UNCHANGED <<cidx, deleted_threads>>
    /\ UNCHANGED <<stop, thread_numb, waiting, total_tasks, shared_tq, shared_locker,
                   pond, shrink_numb, task_loaded, workerVars, producerVars, dpc, cn,
                   calls, closes, closeCalls, peak, waitingRacy, stopSeen, dequeued,
                   executed, fault,
                   target, resets, pidx, windex, growerVars>>

\* lines 102-103: join the old thread of the slot (blocks until it has ended),
\* then bind a new thread to the same index.  join() of a handle that is not
\* joinable throws std::system_error.
AddJoin ==
    /\ cpc = "add_join"
    /\ IF pond[cidx + 1] = "joinable"
       THEN /\ wpc[cidx] = "exited"
            /\ wpc' = [wpc EXCEPT ![cidx] = "while"]
            /\ task' = [task EXCEPT ![cidx] = 0]
            /\ windex' = [windex EXCEPT ![cidx] = cidx]
            /\ cpc' = "add_inc"
            /\ UNCHANGED fault
       ELSE /\ fault' = fault \cup {"join_not_joinable"}
            /\ cpc' = "faulted"
            /\ UNCHANGED <<wpc, task, windex>>
    /\ UNCHANGED <<poolVars, shared_locker, producerVars, dpc, cn, cidx, calls, closes,
                   closeCalls, peak, waitingRacy, stopSeen, dequeued, executed,
                   target, resets, pidx, growerVars>>

\* lines 107-108: index = pond.size(); pond.emplace_back(worker, this, index).
AddNew ==
    /\ cpc = "add_new"
    /\ pond' = Append(pond, "joinable")
    /\ wpc' = [wpc EXCEPT ![Len(pond)] = "while"]
    /\ windex' = [windex EXCEPT ![Len(pond)] = Len(pond)]
    /\ cpc' = "add_inc"
    /\ UNCHANGED <<stop, thread_numb, waiting, total_tasks, shared_tq, shared_locker,
                   shrink_numb, deleted_threads, task_loaded, task, producerVars,
                   dpc, cn, cidx, calls, closes, closeCalls, peak, waitingRacy,
                   stopSeen, dequeued, executed, fault,
                   target, resets, pidx, growerVars>>

\* line 110 and the loop test of line 95: thread_numb++.
AddInc ==
    /\ cpc = "add_inc"
    /\ thread_numb' = thread_numb + 1
    /\ peak' = Max(peak, thread_numb + 1)
    /\ cn' = cn - 1
    /\ cpc' = IF cn - 1 = 0 THEN "idle" ELSE "add_lock"
    /\ UNCHANGED <<stop, waiting, total_tasks, shared_tq, shared_locker, pond,
                   shrink_numb, deleted_threads, task_loaded, workerVars,
                   producerVars, dpc, cidx, calls, closes, closeCalls, waitingRacy,
                   stopSeen, dequeued, executed, fault,
                   target, resets, pidx, windex, growerVars>>

\* ------------------------------------------------------------- addThreads, second caller
\* A second thread calls addThreads(1) while the lifecycle thread may be in a
\* call of its own.  Lines 107-108 and line 110 read and write pond and
\* thread_numb without the lock: here each read and each write is a step of its
\* own, so that a write of the other caller can fall between them.
\* lines 92-95: the call.
GrowThreads ==
    /\ gpc = "idle"
    /\ closeCalls = 0
    /\ Len(pond) + SlotsAsked + 1 <= MaxSlots
    /\ gpc' = "g_lock"
    /\ UNCHANGED <<poolVars, shared_locker, workerVars, producerVars, dpc, ctlVars,
                   waitingRacy, stopSeen, dequeued, executed, fault, target, resets,
                   pidx, windex, gidx, gn>>

\* lines 96-100 and 106: under the lock, take a recycled index if there is one.
GrowLock ==
    /\ gpc = "g_lock"
    /\ shared_locker = Free
    /\ IF Recycles(deleted_threads)
       THEN /\ gidx' = Head(deleted_threads)
            /\ deleted_threads' = Tail(deleted_threads)
            /\ gpc' = "g_join"
       ELSE /\ gpc' = "g_size"
            /\ UNCHANGED <<gidx, deleted_threads>>
    /\ UNCHANGED <<stop, thread_numb, waiting, total_tasks, shared_tq, shared_locker,
                   pond, shrink_numb, task_loaded, workerVars, producerVars, dpc,
                   ctlVars, waitingRacy, stopSeen, dequeued, executed, fault, target,
                   resets, pidx, windex, gn>>

\* lines 102-103: join the thread of handle idx, then bind a new thread with
\* index idx to it.
GrowJoin ==
    /\ gpc = "g_join"
    /\ IF pond[gidx + 1] = "joinable"
       THEN /\ wpc[gidx] = "exited"
            /\ wpc' = [wpc EXCEPT ![gidx] = "while"]
            /\ task' = [task EXCEPT ![gidx] = 0]
            /\ windex' = [windex EXCEPT ![gidx] = gidx]
            /\ gpc' = "g_read"
            /\ UNCHANGED fault
       ELSE /\ fault' = fault \cup {"join_not_joinable"}
            /\ gpc' = "faulted"
            /\ UNCHANGED <<wpc, task, windex>>
    /\ UNCHANGED <<poolVars, shared_locker, producerVars, dpc, ctlVars, waitingRacy,
                   stopSeen, dequeued, executed, target, resets, pidx, gidx,
                   gn>>

\* line 107: index = pond.size()
GrowSize ==
    /\ gpc = "g_size"
    /\ gidx' = Len(pond)
    /\ gpc' = "g_new"
    /\ UNCHANGED <<poolVars, shared_locker, workerVars, producerVars, dpc, ctlVars,
                   waitingRacy, stopSeen, dequeued, executed, fault, target, resets,
                   pidx, windex, gn>>

\* line 108: pond.emplace_back(worker, this, index): the new handle goes to the
\* end of pond as it is now, its thread runs worker(index).
GrowNew ==
    /\ gpc = "g_new"
    /\ pond' = Append(pond, "joinable")
    /\ wpc' = [wpc EXCEPT ![Len(pond)] = "while"]
    /\ windex' = [windex EXCEPT ![Len(pond)] = gidx]
    /\ gpc' = "g_read"
    /\ UNCHANGED <<stop, thread_numb, waiting, total_tasks, shared_tq, shared_locker,
                   shrink_numb, deleted_threads, task_loaded, task, producerVars,
                   dpc, ctlVars, waitingRacy, stopSeen, dequeued, executed, fault,
                   target, resets, pidx, gidx, gn>>

\* line 110, thread_numb++ on a plain int: the read.
GrowRead ==
    /\ gpc = "g_read"
    /\ gn' = thread_numb
    /\ gpc' = "g_inc"
    /\ UNCHANGED <<poolVars, shared_locker, workerVars, producerVars, dpc, ctlVars,
                   waitingRacy, stopSeen, dequeued, executed, fault, target, resets,
                   pidx, windex, gidx>>

\* line 110: the write, and the return of the call.
GrowInc ==
    /\ gpc = "g_inc"
    /\ thread_numb' = gn + 1
    /\ peak' = Max(peak, gn + 1)
    /\ gpc' = "idle"
    /\ UNCHANGED <<stop, waiting, total_tasks, shared_tq, shared_locker, pond,
                   shrink_numb, deleted_threads, task_loaded, workerVars,
                   producerVars, dpc, cpc, cn, cidx, calls, closes, closeCalls,
                   waitingRacy, stopSeen, dequeued, executed, fault, target, resets,
                   pidx, windex, gidx, gn>>

\* ------------------------------------------------------------- delThreads
\* lines 123-125: delThreads(tnumb) with 0 <= tnumb <= thread_numb asserted;
\* shrink_numb += tnumb, without the lock.
DelThreads ==
    /\ cpc = "idle"
    /\ closeCalls = 0
    /\ calls # 0
    /\ \E tnumb \in 0..thread_numb :
           /\ shrink_numb' = shrink_numb + tnumb
           /\ cn' = tnumb
    /\ cpc' = "del_notify"
    /\ calls' = CallsLeft(calls)
    /\ target' = -1
    /\ UNCHANGED <<stop, thread_numb, waiting, total_tasks, shared_tq, shared_locker,
                   pond, deleted_threads, task_loaded, workerVars, producerVars, dpc,
                   cidx, closes, closeCalls, peak, waitingRacy, stopSeen, dequeued,
                   executed, fault,
                   resets, pidx, windex, growerVars>>

\* A delThreads that leaves thread_numb alone.
ShrunkCountKept(n, k) == n

\* thread_numb after line 126: thread_numb -= tnumb.
ShrunkCount(n, k) == n - k

\* lines 126-127: thread_numb -= tnumb; awake_cv.notify_all(), without the lock.
DelNotify ==
    /\ cpc = "del_notify"
    /\ thread_numb' = ShrunkCount(thread_numb, cn)
    /\ wpc' = NotifyAllAwake(wpc)
    /\ cn' = 0
    /\ cpc' = "idle"
    /\ UNCHANGED <<stop, waiting, total_tasks, shared_tq, shared_locker, pond,
                   shrink_numb, deleted_threads, task_loaded, task, producerVars,
                   dpc, cidx, calls, closes, closeCalls, peak, waitingRacy, stopSeen,
                   dequeued, executed, fault,
                   target, resets, pidx, windex, growerVars>>

\* ------------------------------------------------------------- adjustThreads
\* Line 137: the argument adjustThreads passes to addThreads.
Lacking(t) == t - thread_numb

\* A shrink by the default argument of delThreads.
SurplusOne(t) == 1

\* Line 141: the argument adjustThreads passes to delThreads.
Surplus(t) == thread_numb - t

\* lines 134-144: adjustThreads(target_tnumb), target_tnumb >= 0 asserted, up to
\* the first statement of the call it delegates to (lines 93-94, or 124-125:
\* shrink_numb += tnumb); with target_tnumb = thread_numb it returns at once.
AdjustThreads ==
    /\ cpc = "idle"
    /\ closeCalls = 0
    /\ calls # 0
    /\ \E t \in 0..MaxSlots :
           /\ target' = t
           /\ IF t > thread_numb
              THEN /\ Len(pond) + SlotsAsked + Lacking(t) <= MaxSlots
                   /\ cn' = Lacking(t)
                   /\ cpc' = "add_lock"
                   /\ UNCHANGED shrink_numb
              ELSE IF t < thread_numb
              THEN /\ shrink_numb' = shrink_numb + Surplus(t)
                   /\ cn' = Surplus(t)
                   /\ cpc' = "del_notify"
              ELSE UNCHANGED <<cn, cpc, shrink_numb>>
    /\ calls' = CallsLeft(calls)
    /\ UNCHANGED <<stop, thread_numb, waiting, total_tasks, shared_tq, shared_locker,
                   pond, deleted_threads, task_loaded, workerVars, producerVars, dpc,
                   cidx, closes, closeCalls, peak, waitingRacy, stopSeen, dequeued,
                   executed, fault, resets, pidx, windex, growerVars>>

\* ------------------------------------------------------------- close
\* lines 76-80: under the lock, stop = true and awake_cv.notify_all().
CloseStop(next) ==
    /\ shared_locker = Free
    /\ stop' = TRUE
    /\ wpc' = NotifyAllAwake(wpc)
    /\ cn' = 1
    /\ cpc' = next
    /\ closeCalls' = closeCalls + 1
    /\ UNCHANGED <<thread_numb, waiting, total_tasks, shared_tq, shared_locker, pond,
                   shrink_numb, deleted_threads, task_loaded, task, producerVars,
                   dpc, cidx, calls, closes, peak, waitingRacy, stopSeen, dequeued,
                   executed, fault,
                   target, resets, pidx, windex, growerVars>>

\* line 75: an explicit close() call.
Close ==
    /\ cpc = "idle"
    /\ closeCalls < MaxCloses
    /\ CloseStop("close_join")

\* lines 64-68: ~DynamicThreadPond() closes the pond unless stop is set.
Destructor ==
    /\ cpc = "idle"
    /\ IF ~stop
       THEN CloseStop("dtor_join")
       ELSE /\ cpc' = "destroyed"
            /\ UNCHANGED <<poolVars, shared_locker, workerVars, producerVars, dpc,
                           cn, cidx, calls, closes, closeCalls, peak, waitingRacy,
                           stopSeen, dequeued, executed, fault,
                   target, resets, pidx, windex, growerVars>>

\* What thread.join() of line 82 does to a handle whose thread has ended.
Joined(h) == "joined"

\* lines 81-83: for (auto &thread : pond) thread.join(); join() blocks until
\* the thread has ended and throws std::system_error when the handle is not
\* joinable; the exception leaves close().
CloseJoin ==
    /\ cpc \in {"close_join", "dtor_join"}
    /\ cn <= Len(pond)
    /\ IF pond[cn] = "joinable"
       THEN /\ wpc[cn - 1] = "exited"
            /\ pond' = [pond EXCEPT ![cn] = Joined(@)]
            /\ cn' = cn + 1
            /\ UNCHANGED <<cpc, fault>>
       ELSE /\ fault' = fault \cup {"join_not_joinable"}
            /\ cpc' = "faulted"
            /\ UNCHANGED <<pond, cn>>
    /\ UNCHANGED <<stop, thread_numb, waiting, total_tasks, shared_tq, shared_locker,
                   shrink_numb, deleted_threads, task_loaded, workerVars,
                   producerVars, dpc, cidx, calls, closes, closeCalls, peak,
                   waitingRacy, stopSeen, dequeued, executed,
                   target, resets, pidx, windex, growerVars>>

\* line 84: close() returns (to its caller, or into the destructor).
CloseReturn ==
    /\ cpc \in {"close_join", "dtor_join"}
    /\ cn > Len(pond)
    /\ closes' = closes + 1
    /\ cpc' = IF cpc = "dtor_join" THEN "destroyed" ELSE "idle"
    /\ UNCHANGED <<poolVars, shared_locker, workerVars, producerVars, dpc, cn, cidx,
                   calls, closeCalls, peak, waitingRacy, stopSeen, dequeued, executed,
                   fault,
                   target, resets, pidx, windex, growerVars>>

\* ------------------------------------------------------------- specification
\* The steps of worker() that serve tasks.
WorkerRun(i) ==
    \/ WorkerWhile(i) \/ WorkerLock(i) \/ WorkerBlock(i) \/ WorkerDequeue(i)
    \/ WorkerLoad(i) \/ WorkerInvoke(i) \/ WorkerDec(i) \/ WorkerIfWaiting(i)

\* With the ways out of the loop.
WorkerLoop(i) == WorkerRun(i) \/ WorkerShrinkExit(i) \/ WorkerReturn(i)

Producer(p) ==
    \/ Submit(p) \/ SubmitInc(p) \/ SubmitNotify(p)
    \/ SubmitInBatch(p) \/ BatchPush(p) \/ BatchNotify(p)

Waiter(d) == WaitForTasks(d) \/ WaitLock(d) \/ WaitBlock(d) \/ WaitReturn(d)

Grow == AddThreads \/ AddLock \/ AddJoin \/ AddNew \/ AddInc

Shrink == DelThreads \/ DelNotify

Closing == Close \/ Destructor \/ CloseJoin \/ CloseReturn

\* Every thread of the program.
Next ==
    \/ \E i \in Slots : WorkerLoop(i) \/ WorkerSkip(i) \/ WorkerNotify(i)
    \/ \E i \in Slots : WorkerSpuriousWake(i)
    \/ \E p \in Producers : Producer(p)
    \/ \E d \in Waiters : Waiter(d) \/ WaitSpuriousWake(d)
    \/ Grow
    \/ Shrink
    \/ Closing

Spec == Init /\ [][Next]_vars

\* Producers, workers and the lifecycle thread resizing the pond; nobody calls
\* waitForTasks or close (so lines 246-else and 258-259 are never reached).
NextPool ==
    \/ \E i \in Slots : WorkerLoop(i)
    \/ \E i \in Slots : WorkerSpuriousWake(i)
    \/ \E p \in Producers : Producer(p)
    \/ Grow
    \/ Shrink

SpecPool == Init /\ [][NextPool]_vars

\* Producers, workers, shrink requests and close(); nobody calls waitForTasks.
NextClose ==
    \/ \E i \in Slots : WorkerLoop(i) \/ WorkerSkip(i)
    \/ \E i \in Slots : WorkerSpuriousWake(i)
    \/ \E p \in Producers : Producer(p)
    \/ Shrink
    \/ Closing

SpecClose == Init /\ [][NextClose]_vars

\* Two resize calls, every one of them through adjustThreads; producers that
\* call submit.
NextAdjust ==
    \/ \E i \in Slots : WorkerLoop(i)
    \/ \E i \in Slots : WorkerSpuriousWake(i)
    \/ \E p \in Producers : Submit(p) \/ SubmitInc(p) \/ SubmitNotify(p)
    \/ AdjustThreads \/ AddLock \/ AddJoin \/ AddNew \/ AddInc \/ DelNotify

SpecAdjust == Construct(2) /\ [][NextAdjust]_vars

\* ------------------------------------------------------------- fairness
\* A running thread takes its next step; a thread that asks for shared_locker
\* gets it when the lock is free again and again (SF); a producer or the
\* lifecycle thread finishes the call it is in.  Nothing makes a caller start a
\* call, and nothing makes a spurious wake-up happen.
FairRun(i) == WF_vars(WorkerRun(i)) /\ SF_vars(WorkerLock(i))

FairProducer(p) ==
    WF_vars(SubmitInc(p) \/ SubmitNotify(p) \/ BatchPush(p) \/ BatchNotify(p))

FairWaiter(d) == WF_vars(WaitBlock(d) \/ WaitReturn(d)) /\ SF_vars(WaitLock(d))

\* Producers, workers and a thread in waitForTasks; the pond is neither resized
\* nor closed, so every worker stays live.
NextWait ==
    \/ \E i \in Slots : WorkerRun(i) \/ WorkerNotify(i)
    \/ \E i \in Slots : WorkerSpuriousWake(i)
    \/ \E p \in Producers : Producer(p)
    \/ \E d \in Waiters : Waiter(d) \/ WaitSpuriousWake(d)

SpecWait == Init /\ [][NextWait]_vars

SpecWaitFair ==
    /\ SpecWait
    /\ \A i \in Slots : FairRun(i) /\ SF_vars(WorkerNotify(i))
    /\ \A p \in Producers : FairProducer(p)
    /\ \A d \in Waiters : FairWaiter(d)

\* Two producers and the workers of a pond that is neither resized nor closed.
NextOrder ==
    \/ \E i \in Slots : WorkerRun(i)
    \/ \E i \in Slots : WorkerSpuriousWake(i)
    \/ \E p \in AllProducers : Producer(p)

SpecOrder == Init /\ [][NextOrder]_vars

\* The same threads and a thread that calls resetTaskLoaded.
NextDrain ==
    \/ NextWait
    \/ ResetTaskLoaded

SpecDrain == Init /\ [][NextDrain]_vars

\* Producers, workers and two threads that call waitForTasks; the pond is
\* neither resized nor closed.
NextWaitTwo ==
    \/ \E i \in Slots : WorkerRun(i) \/ WorkerNotify(i)
    \/ \E i \in Slots : WorkerSpuriousWake(i)
    \/ \E p \in Producers : Producer(p)
    \/ \E d \in AllWaiters : Waiter(d) \/ WaitSpuriousWake(d)

SpecWaitTwo == Init /\ [][NextWaitTwo]_vars

\* One resize call, producers that call submit, workers: nobody calls
\* waitForTasks or close.
NextShrink ==
    \/ \E i \in Slots : WorkerLoop(i)
    \/ \E i \in Slots : WorkerSpuriousWake(i)
    \/ \E p \in Producers : Submit(p) \/ SubmitInc(p) \/ SubmitNotify(p)
    \/ Shrink

SpecShrink == Construct(1) /\ [][NextShrink]_vars

SpecShrinkFair ==
    /\ SpecShrink
    /\ \A i \in Slots : FairRun(i) /\ WF_vars(WorkerShrinkExit(i) \/ WorkerReturn(i))
    /\ \A p \in Producers : FairProducer(p)
    /\ WF_vars(DelNotify)

\* The same threads and one close() call.
CloseOnce == closeCalls = 0 /\ Close

\* A submit call among the first MaxShutTasks.
SubmitFew(p) == nextTask <= MaxShutTasks /\ Submit(p)

NextShut ==
    \/ \E i \in Slots : WorkerLoop(i) \/ WorkerSkip(i)
    \/ \E i \in Slots : WorkerSpuriousWake(i)
    \/ \E p \in Producers : SubmitFew(p) \/ SubmitInc(p) \/ SubmitNotify(p)
    \/ Shrink
    \/ CloseOnce \/ CloseJoin \/ CloseReturn

SpecShut == Construct(1) /\ [][NextShut]_vars

\* Every thread keeps running and finishes the call it is in.  After stop is
\* set the lock is asked for finitely often, so weak fairness is enough.
SpecShutFair ==
    /\ SpecShut
    /\ \A i \in Slots : WF_vars(WorkerLoop(i) \/ WorkerSkip(i))
    /\ \A p \in Producers : WF_vars(SubmitInc(p) \/ SubmitNotify(p))
    /\ WF_vars(DelNotify \/ CloseJoin \/ CloseReturn)

\* The first submit call.
SubmitFirst(p) == nextTask = 1 /\ Submit(p)

\* Two resize calls (addThreads or delThreads), a producer that calls submit
\* once, and the workers; nobody calls waitForTasks or close.
NextResize ==
    \/ \E i \in Slots : WorkerLoop(i)
    \/ \E i \in Slots : WorkerSpuriousWake(i)
    \/ \E p \in Producers : SubmitFirst(p) \/ SubmitInc(p) \/ SubmitNotify(p)
    \/ Grow
    \/ Shrink

SpecResize == Construct(2) /\ [][NextResize]_vars

\* Every worker keeps running and gets the lock when it asks for it again and
\* again; submit and delThreads finish once begun.  Nothing makes addThreads
\* go on, and nothing makes a spurious wake-up happen.
SpecResizeFair ==
    /\ SpecResize
    /\ \A i \in Slots : WF_vars(WorkerLoop(i)) /\ SF_vars(WorkerLock(i))
    /\ \A p \in Producers : WF_vars(SubmitInc(p) \/ SubmitNotify(p))
    /\ WF_vars(DelNotify)

\* The steps of worker() when no task is ever submitted.
WorkerIdle(i) ==
    \/ WorkerWhile(i) \/ WorkerLock(i) \/ WorkerBlock(i)
    \/ WorkerShrinkExit(i) \/ WorkerReturn(i)

GrowSecond ==
    \/ GrowThreads \/ GrowLock \/ GrowJoin \/ GrowSize \/ GrowNew
    \/ GrowRead \/ GrowInc

\* Two threads that call addThreads at the same time (one of them makes two
\* resize calls, addThreads or delThreads), and the workers; no tasks.
NextGrowTwo ==
    \/ \E i \in Slots : WorkerIdle(i)
    \/ \E i \in Slots : WorkerSpuriousWake(i)
    \/ Grow
    \/ Shrink
    \/ GrowSecond

SpecGrowTwo == Construct(2) /\ [][NextGrowTwo]_vars

\* ------------------------------------------------------------- claims
\* Slots holding a dequeued task whose decrement (line 255) has not happened.
InFlight == {i \in Slots : task[i] # 0}

\* Tasks in the shared queue.
Queued == {shared_tq[k] : k \in 1..Len(shared_tq)}

\* C1: with one caller of waitForTasks, at least one worker and no resize or
\* close, a call of waitForTasks eventually returns.
C1_DrainReturns ==
    \A d \in Waiters : (thread_numb >= 1 /\ dpc[d] # "idle") ~> (dpc[d] = "idle")

\* C2: waitForTasks passes its wait only at a predicate evaluation where the
\* counter is 0, the queue is empty and no worker holds an unfinished task; and
\* an evaluation that finds the counter 0 returns instead of blocking.
C2_ReturnsOnlyWhenDrained ==
    [][\A d \in Waiters :
          /\ (dpc[d] # "w_return" /\ dpc'[d] = "w_return")
                 => (total_tasks = 0 /\ shared_tq = <<>> /\ InFlight = {})
          /\ (dpc[d] = "w_lock" /\ dpc'[d] # "w_lock" /\ total_tasks = 0)
                 => (dpc'[d] = "w_return")]_vars

\* waitForTasks is about to return after both tasks were executed.
C2_Witness ==
    \E d \in Waiters : dpc[d] = "w_return" /\ task_loaded = MaxTasks

\* C3: no task is dequeued or executed more than once, no two workers hold the
\* same task, and a task a worker holds is no longer in the queue.
C3_ExactlyOnce ==
    \A t \in TaskIds :
        /\ dequeued[t] <= 1
        /\ executed[t] <= dequeued[t]
        /\ Cardinality({i \in Slots : task[i] = t}) <= 1
        /\ (t \in Queued => \A i \in Slots : task[i] # t)
        /\ Cardinality({k \in 1..Len(shared_tq) : shared_tq[k] = t}) <= 1

\* Two workers hold different tasks at once while the pond is being resized.
C3_Witness ==
    /\ \E i, j \in Slots : i # j /\ task[i] # 0 /\ task[j] # 0
    /\ cpc # "idle"

\* Tasks whose decrement of line 255 has happened.
Completed == {t \in TaskIds : executed[t] >= 1 /\ \A i \in Slots : task[i] # t}

\* C4: total_tasks is never negative and, whenever no producer holds the lock,
\* it is the number of queued tasks plus the number of tasks held by workers,
\* which is the number submitted minus the number completed.
C4_CounterAccounting ==
    /\ total_tasks >= 0
    /\ (\A p \in Producers : shared_locker # ProducerId(p))
           => /\ total_tasks = Len(shared_tq) + Cardinality(InFlight)
              /\ total_tasks = (nextTask - 1) - Cardinality(Completed)

\* One task queued, one held by a worker, none completed yet.
C4_Witness ==
    /\ Len(shared_tq) = 1
    /\ Cardinality(InFlight) = 1
    /\ shared_locker = Free
    /\ total_tasks = 2

\* C5: every step the lifecycle thread takes in a close() made after a close()
\* has returned leaves the pool state unchanged and raises no fault.
C5_SecondCloseNoOp ==
    [][(closes >= 1 /\ <<cpc, cn>>' # <<cpc, cn>>)
           => (poolVars' = poolVars /\ fault' = fault)]_vars

\* C6: after close() has returned, getThreadNumb() (thread_numb) reads 0.
C6_CountZeroAfterClose == (closes >= 1) => (thread_numb = 0)

\* Every slot's thread has ended or was never started.
AllExited == \A i \in Slots : wpc[i] \in {"none", "exited"}

\* C7: once close() has set stop, every worker eventually exits and close()
\* returns.
C7_CloseTerminates == stop ~> (closes >= 1 /\ AllExited)

\* close() has returned on a full pond in which a shrink exit happened and a
\* task was left in the queue.
C7_Witness ==
    /\ closes >= 1
    /\ Len(pond) = MaxSlots
    /\ deleted_threads # <<>>
    /\ shared_tq # <<>>

\* C8: once stop is set, no worker takes a task: the dequeue history and the
\* tasks held by workers do not grow, and the tasks in the queue stay there,
\* unexecuted.
C8_NoDequeueAfterStop ==
    [][stop => /\ dequeued' = dequeued
               /\ \A i \in Slots : task'[i] \in {0, task[i]}
               /\ \A k \in 1..Len(shared_tq) :
                      /\ Len(shared_tq') >= k
                      /\ shared_tq'[k] = shared_tq[k]
                      /\ executed'[shared_tq[k]] = 0]_vars

\* stop is set, a task taken before that is being run, another one stays queued.
C8_Witness ==
    /\ stop
    /\ shared_tq # <<>>
    /\ \E i \in Slots : wpc[i] = "invoke"

\* C9: after delThreads(n) has returned, with no later submit, resize or close,
\* eventually the shrink counter is back to 0 and exactly n workers have pushed
\* their index onto deleted_threads.
C9_ShrinkCompletes ==
    (/\ calls = 0
     /\ cpc = "idle"
     /\ nextTask > MaxTasks
     /\ \A p \in Producers : ppc[p] = "idle")
        ~> (shrink_numb = 0 /\ Len(deleted_threads) = peak - thread_numb)

\* C10: pond.size() never exceeds the largest thread_numb there has been.
C10_SlotsWithinPeak == Len(pond) <= peak

\* C11: when an adjustThreads(target) call returns, thread_numb is target; and
\* a call whose target is the current thread_numb returns at once and leaves
\* the threads, pond, shrink_numb and deleted_threads as they were.
C11_AdjustReachesTarget ==
    [][/\ (cpc # "idle" /\ cpc' = "idle" /\ target # -1) => (thread_numb' = target)
       /\ (calls' # calls /\ target' # -1 /\ cpc' = "idle")
              => (thread_numb' = target')
       /\ (calls' # calls /\ target' = thread_numb)
              => /\ cpc' = "idle"
                 /\ UNCHANGED <<thread_numb, pond, wpc, windex, shrink_numb,
                                deleted_threads>>]_vars

\* adjustThreads(0) and then adjustThreads(1) have returned on a pond built
\* with one thread (the second call had to append a slot).
C11_Witness ==
    /\ calls = 0
    /\ cpc = "idle"
    /\ target = thread_numb
    /\ Len(pond) = 2
    /\ peak = 1

\* C12: when waitForTasks has passed its wait and resetTaskLoaded was never
\* called, getTasksRemain() (total_tasks) is 0 and getTaskLoaded() (task_loaded)
\* is the number of tasks submitted so far.
C12_DrainedCounters ==
    \A d \in Waiters :
        (dpc[d] = "w_return" /\ resets = 0)
            => (total_tasks = 0 /\ task_loaded = nextTask - 1)

\* waitForTasks is about to return on a full pond whose workers each ran a task,
\* with no reset.
C12_Witness ==
    /\ \E d \in Waiters : dpc[d] = "w_return"
    /\ resets = 0
    /\ thread_numb = MaxSlots
    /\ nextTask > MaxTasks
    /\ \A t \in TaskIds : executed[t] = 1

\* Task ids are given in enqueue order, so the enqueue sequence is 1, 2, ...
\* While a submitInBatch call is between two of its emplaces, the queue changes
\* only by the next emplace of that call, cont[i] for the next i.
BatchStep ==
    \A p \in AllProducers :
        (ppc[p] = "b_push" /\ pidx[p] >= 1 /\ shared_tq' # shared_tq)
            => /\ shared_tq' = Append(shared_tq, nextTask)
               /\ pidx'[p] = IF pidx[p] + 1 >= pbatch[p] THEN 0 ELSE pidx[p] + 1
               /\ \A q \in AllProducers \ {p} : ppc'[q] = ppc[q]

\* An enqueue appends at the back; a dequeue takes the front, which is the
\* oldest task not yet dequeued.
FifoStep ==
    /\ Len(shared_tq') > Len(shared_tq) => shared_tq' = Append(shared_tq, nextTask)
    /\ \A t \in TaskIds :
           dequeued'[t] # dequeued[t]
               => /\ shared_tq # <<>> /\ t = Head(shared_tq)
                  /\ shared_tq' = Tail(shared_tq)
                  /\ \A u \in TaskIds : dequeued[u] >= 1 <=> u < t

\* C13: tasks are dequeued in the order they were enqueued, and the tasks of
\* one submitInBatch call are enqueued as a contiguous run in container order,
\* with no task of another producer in between.
C13_QueueOrder == [][FifoStep /\ BatchStep]_vars

\* A producer is in the middle of a batch (one task pushed, more to come)
\* while the other producer has still to make its call.
C13_Witness ==
    \E p, q \in AllProducers :
        /\ p # q
        /\ ppc[p] = "b_push" /\ pidx[p] >= 1 /\ pbatch[p] > pidx[p]
        /\ ppc[q] = "idle"
        /\ nextTask <= MaxTasks

\* C14: a worker that has passed its wait while shrink_numb is positive
\* decrements it by one, pushes its own index and leaves the loop without
\* touching the queue, whether tasks are pending or not; shrink_numb is never
\* negative and goes down only by one, with a worker taking that exit.
C14_ShrinkFirst ==
    /\ [](shrink_numb >= 0)
    /\ [][/\ \A i \in Slots :
                (wpc[i] = "if_shrink" /\ wpc'[i] # "if_shrink" /\ shrink_numb > 0)
                    => /\ shrink_numb' = shrink_numb - 1
                       /\ deleted_threads' = Append(deleted_threads, windex[i])
                       /\ wpc'[i] = "return"
                       /\ UNCHANGED <<shared_tq, dequeued, task, total_tasks>>
          /\ shrink_numb' < shrink_numb
                => /\ shrink_numb' = shrink_numb - 1
                   /\ Cardinality({i \in Slots : wpc[i] = "if_shrink"
                                                 /\ wpc'[i] = "return"}) = 1]_vars

\* A worker has passed its wait and is at line 241 with a shrink request and
\* tasks pending.
C14_Witness ==
    \E i \in Slots :
        /\ wpc[i] = "if_shrink"
        /\ shrink_numb > 0
        /\ shared_tq # <<>>
        /\ total_tasks = Len(shared_tq)

\* C15: a worker leaves its loop only from line 241 (right after the wait) or
\* from the loop test, and holds no task when it does; a task that was dequeued
\* is held by a worker on its way to line 255 until its decrement has happened.
C15_ExitOnlyIdle ==
    /\ [](/\ \A i \in Slots : wpc[i] \in {"return", "exited"} => task[i] = 0
          /\ \A t \in TaskIds :
                 (dequeued[t] >= 1 /\ t \notin Completed)
                     => \E i \in Slots : /\ task[i] = t
                                         /\ wpc[i] \in {"load", "invoke", "dec"})
    /\ [][\A i \in Slots :
              (wpc[i] # "return" /\ wpc'[i] = "return")
                  => /\ wpc[i] \in {"if_shrink", "while"}
                     /\ task[i] = 0
                     /\ total_tasks' = total_tasks]_vars

\* A shrink request is pending while a worker is running a task, and another
\* worker has already taken its exit.
C15_Witness ==
    /\ shrink_numb > 0
    /\ \E i \in Slots : wpc[i] = "invoke" /\ task[i] # 0
    /\ \E j \in Slots : wpc[j] \in {"return", "exited"}

\* Worker threads that have not taken the shrink exit of lines 241-245.
Unshrunk == {i \in Slots : wpc[i] \notin {"none", "return", "exited"}}

\* C17: before close(), whenever the lifecycle thread is in no addThreads or
\* delThreads call, the workers that have not taken a shrink exit number
\* thread_numb + shrink_numb.
C17_LifecycleAccounting ==
    (cpc = "idle" /\ closeCalls = 0)
        => Cardinality(Unshrunk) = thread_numb + shrink_numb

\* Between calls: one worker has taken its exit, another shrink request is
\* still pending.
C17_Witness ==
    /\ cpc = "idle"
    /\ shrink_numb > 0
    /\ deleted_threads # <<>>
    /\ Cardinality(Unshrunk) >= 1

\* C18: a worker goes on to line 247 (front(), pop()) only with a task in the
\* queue; front() of an empty queue never happens.
C18_FrontNeverEmpty ==
    /\ []("front_of_empty_queue" \notin fault)
    /\ [][\A i \in Slots :
              (wpc[i] = "if_shrink" /\ wpc'[i] = "load")
                  => (shared_tq # <<>> /\ task'[i] = Head(shared_tq))]_vars

\* A worker is at line 241 with the queue empty: it passed its wait for a
\* shrink request or for stop.
C18_Witness ==
    \E i \in Slots :
        /\ wpc[i] = "if_shrink"
        /\ shared_tq = <<>>
        /\ nextTask > 1
        /\ closeCalls >= 1

\* C19: while a caller of waitForTasks is blocked in its wait, the waiting flag
\* is set.
C19_FlagCoversWaiters ==
    \A d \in AllWaiters : dpc[d] = "w_blocked" => waiting

\* C16: whenever tasks are in the queue, eventually all of them have been
\* dequeued and every dequeued task has been executed, unless no worker is
\* left in its loop.
C16_TaskEventuallyRuns ==
    (shared_tq # <<>>)
        ~> \/ /\ shared_tq = <<>>
              /\ \A t \in TaskIds : dequeued[t] >= 1 => executed[t] >= 1
           \/ Unshrunk = {}

\* The task has been executed in a pond that was shrunk and grown, with a
\* worker left in its loop.
C16_Witness ==
    /\ executed[1] = 1
    /\ calls = 0
    /\ deleted_threads # <<>>
    /\ Len(pond) = MaxSlots
    /\ Unshrunk # {}

\* Worker threads that have not ended.
Running == {i \in Slots : wpc[i] \notin {"none", "exited"}}

\* C20: no two running workers were started with the same index, the recycle
\* queue holds no index twice, and no handle is joined that is not joinable.
C20_DistinctIndices ==
    /\ \A i, j \in Running : i # j => windex[i] # windex[j]
    /\ \A k, l \in 1..Len(deleted_threads) :
           k # l => deleted_threads[k] # deleted_threads[l]
    /\ "join_not_joinable" \notin fault

====
